---------------------------- MODULE Spec2Model ----------------------------
(***************************************************************************)
(* A model of the text chunking and reassembly engine of rag-scripts:      *)
(*   textsplit/legal_chunker.py  chunk_text_for_rag and its classifier     *)
(*   textsplit/cli.py            split_text_minmax                         *)
(*   textsplit/legal_cli.py      the legal-chunk-text batch loop           *)
(*   textsplit/merge_cli.py      the merge-split-files run                 *)
(* A text is a sequence of one-character strings.  Offsets are Python's    *)
(* 0-based offsets; the character at offset k is text[k + 1].              *)
(***************************************************************************)
EXTENDS Integers, Sequences, FiniteSets, TLC

(***************************************************************************)
(* Characters.  The three non-ASCII marks of BEARING_RE are written by     *)
(* name: "deg" is the degree sign, "prime" and "dprime" the typographic    *)
(* minute and second marks.                                                *)
(***************************************************************************)
UpperSeq ==
    << "A", "B", "C", "D", "E", "F", "G", "H", "I", "J", "K", "L", "M",
       "N", "O", "P", "Q", "R", "S", "T", "U", "V", "W", "X", "Y", "Z" >>

LowerSeq ==
    << "a", "b", "c", "d", "e", "f", "g", "h", "i", "j", "k", "l", "m",
       "n", "o", "p", "q", "r", "s", "t", "u", "v", "w", "x", "y", "z" >>

Upper == { UpperSeq[k] : k \in DOMAIN UpperSeq }

Lower == { LowerSeq[k] : k \in DOMAIN LowerSeq }

Digit == { "0", "1", "2", "3", "4", "5", "6", "7", "8", "9" }

\* str.isspace / regex \s over the characters the model uses
Space == { " ", "\n", "\t", "\r" }

\* regex \w
WordChar == Upper \cup Lower \cup Digit \cup { "_" }

\* str.lower on one character
ToLower(c) ==
    IF c \in Upper
    THEN LowerSeq[CHOOSE k \in DOMAIN UpperSeq : UpperSeq[k] = c]
    ELSE c

\* str.upper on one character
ToUpper(c) ==
    IF c \in Lower
    THEN UpperSeq[CHOOSE k \in DOMAIN LowerSeq : LowerSeq[k] = c]
    ELSE c

\* str.lower
LowerStr(s) == [k \in DOMAIN s |-> ToLower(s[k])]

SetMin(S) == CHOOSE x \in S : \A y \in S : x <= y

SetMax(S) == CHOOSE x \in S : \A y \in S : y <= x

Min2(a, b) == IF a <= b THEN a ELSE b

Max2(a, b) == IF a >= b THEN a ELSE b

\* Python s[a:b] for offsets a, b >= 0
Slice(s, a, b) ==
    LET hi == Min2(b, Len(s))
    IN  IF a >= hi THEN << >> ELSE SubSeq(s, a + 1, hi)

\* str.endswith
EndsWith(s, suf) ==
    /\ Len(suf) <= Len(s)
    /\ SubSeq(s, Len(s) - Len(suf) + 1, Len(s)) = suf

\* str.startswith
StartsWith(s, pre) ==
    /\ Len(pre) <= Len(s)
    /\ SubSeq(s, 1, Len(pre)) = pre

\* str.strip()
Strip(s) ==
    LET keep == { k \in DOMAIN s : s[k] \notin Space }
    IN  IF keep = {} THEN << >> ELSE SubSeq(s, SetMin(keep), SetMax(keep))

\* str.rstrip("\n")
RStripNl(s) ==
    LET keep == { k \in DOMAIN s : s[k] # "\n" }
    IN  IF keep = {} THEN << >> ELSE SubSeq(s, 1, SetMax(keep))

\* "".join(ss)
RECURSIVE Concat(_)
Concat(ss) == IF Len(ss) = 0 THEN << >> ELSE Head(ss) \o Concat(Tail(ss))

\* str.split(sep): the pieces between the occurrences of sep, scanned from
\* the left
RECURSIVE SplitOn(_, _)
SplitOn(s, sep) ==
    LET hits == { k \in 0..(Len(s) - Len(sep)) : Slice(s, k, k + Len(sep)) = sep }
    IN  IF hits = {}
        THEN << s >>
        ELSE LET k == SetMin(hits)
             IN  << Slice(s, 0, k) >> \o SplitOn(Slice(s, k + Len(sep), Len(s)), sep)

SeqRange(ss) == { ss[k] : k \in DOMAIN ss }

\* str.isupper: at least one cased character and no lower-case one
IsUpperStr(s) ==
    /\ \E k \in DOMAIN s : s[k] \in Upper
    /\ \A k \in DOMAIN s : s[k] \notin Lower

(***************************************************************************)
(* Regular expressions, as far as the patterns of the source need them.    *)
(* A pattern is a sequence of items; Ends(re, s, P) is the set of offsets  *)
(* at which a match of re that starts at an offset of P can end, which is  *)
(* all that re.search's truth value depends on.                            *)
(*   cls: between lo and hi characters of the set c (hi = -1: no limit)    *)
(*   wb:  \b      eos: $      opt: (?:r)?      alt: r1|..|rn                 *)
(***************************************************************************)
Cls(c, lo, hi) == [k |-> "cls", c |-> c, lo |-> lo, hi |-> hi]

One(c) == Cls(c, 1, 1)

Wb == [k |-> "wb"]

Eos == [k |-> "eos"]

Opt(r) == [k |-> "opt", r |-> r]

\* rs is a sequence of alternatives
Alt(rs) == [k |-> "alt", rs |-> rs]

\* a literal word
Word(w) == [k \in DOMAIN w |-> One({ w[k] })]

\* a literal word under re.IGNORECASE
WordCI(w) == [k \in DOMAIN w |-> One({ ToLower(w[k]), ToUpper(w[k]) })]

\* whether the characters on the two sides of offset p differ in being \w
AtWordBoundary(s, p) ==
    LET before == p >= 1 /\ s[p] \in WordChar
        after  == p < Len(s) /\ s[p + 1] \in WordChar
    IN  before # after

\* $ without re.MULTILINE: the end, or just before a final newline
AtEnd(s, p) == p = Len(s) \/ (p = Len(s) - 1 /\ s[Len(s)] = "\n")

RECURSIVE Ends(_, _, _)
Ends(re, s, P) ==
    IF Len(re) = 0 \/ P = {}
    THEN P
    ELSE LET it == Head(re)
             Q  == CASE it.k = "cls" ->
                         { q \in 0..Len(s) :
                             \E p \in P :
                                /\ q - p >= it.lo
                                /\ (it.hi = -1 \/ q - p <= it.hi)
                                /\ \A r \in (p + 1)..q : s[r] \in it.c }
                    [] it.k = "wb"  -> { p \in P : AtWordBoundary(s, p) }
                    [] it.k = "eos" -> { p \in P : AtEnd(s, p) }
                    [] it.k = "opt" -> P \cup Ends(it.r, s, P)
                    [] it.k = "alt" ->
                         UNION { Ends(it.rs[j], s, P) : j \in DOMAIN it.rs }
         IN  Ends(Tail(re), s, Q)

\* bool(pattern.search(s))
Search(re, s) == Ends(re, s, 0..Len(s)) # {}

\* bool(pattern.search(s)) for a pattern that starts with ^
SearchAnchored(re, s) == Ends(re, s, {0}) # {}

Star(c) == Cls(c, 0, -1)

Plus(c) == Cls(c, 1, -1)

(***************************************************************************)
(* The Boundary Classifier: legal_chunker.py, lines 13-61.                 *)
(***************************************************************************)
LEGAL_HEADING_PATTERNS ==
    << \* ^\s*(EXHIBIT\s+[A-Z0-9]+)\s*$
       << Star(Space) >> \o Word(<< "E", "X", "H", "I", "B", "I", "T" >>)
          \o << Plus(Space), Plus(Upper \cup Digit), Star(Space), Eos >>,
       \* ^\s*(LEGAL\s+DESCRIPTION)\s*$
       << Star(Space) >> \o Word(<< "L", "E", "G", "A", "L" >>)
          \o << Plus(Space) >>
          \o Word(<< "D", "E", "S", "C", "R", "I", "P", "T", "I", "O", "N" >>)
          \o << Star(Space), Eos >>,
       \* ^\s*(DESCRIPTION)\s*$
       << Star(Space) >>
          \o Word(<< "D", "E", "S", "C", "R", "I", "P", "T", "I", "O", "N" >>)
          \o << Star(Space), Eos >>,
       \* ^\s*(PARCEL\s+\d+|PARCEL\s+[A-Z])\b
       << Star(Space),
          Alt(<< Word(<< "P", "A", "R", "C", "E", "L" >>)
                    \o << Plus(Space), Plus(Digit) >>,
                 Word(<< "P", "A", "R", "C", "E", "L" >>)
                    \o << Plus(Space), One(Upper) >> >>),
          Wb >>,
       \* ^\s*(LOT\s+\d+[A-Z]?)\b
       << Star(Space) >> \o Word(<< "L", "O", "T" >>)
          \o << Plus(Space), Plus(Digit), Cls(Upper, 0, 1), Wb >>,
       \* ^\s*(TRACT\s+\w+)\b
       << Star(Space) >> \o Word(<< "T", "R", "A", "C", "T" >>)
          \o << Plus(Space), Plus(WordChar), Wb >>,
       \* ^\s*(SECTION\s+\d+)\b
       << Star(Space) >> \o Word(<< "S", "E", "C", "T", "I", "O", "N" >>)
          \o << Plus(Space), Plus(Digit), Wb >>,
       \* ^\s*(TOWNSHIP\s+\w+|T\.?\s*\d+[NS]?)\b
       << Star(Space),
          Alt(<< Word(<< "T", "O", "W", "N", "S", "H", "I", "P" >>)
                    \o << Plus(Space), Plus(WordChar) >>,
                 << One({ "T" }), Cls({ "." }, 0, 1), Star(Space),
                    Plus(Digit), Cls({ "N", "S" }, 0, 1) >> >>),
          Wb >>,
       \* ^\s*(RANGE\s+\w+|R\.?\s*\d+[EW]?)\b
       << Star(Space),
          Alt(<< Word(<< "R", "A", "N", "G", "E" >>)
                    \o << Plus(Space), Plus(WordChar) >>,
                 << One({ "R" }), Cls({ "." }, 0, 1), Star(Space),
                    Plus(Digit), Cls({ "E", "W" }, 0, 1) >> >>),
          Wb >> >>

\* \b([NS])\s*\d{1,3}[deg\s]\s*\d{1,2}(?:['prime]\s*\d{1,2}(?:["dprime])?)?\s*([EW])\b
\* under re.IGNORECASE
BEARING_RE ==
    << Wb, One({ "N", "S", "n", "s" }), Star(Space), Cls(Digit, 1, 3),
       One({ "deg" } \cup Space), Star(Space), Cls(Digit, 1, 2),
       Opt(<< One({ "'", "prime" }), Star(Space), Cls(Digit, 1, 2),
              Opt(<< One({ "\"", "dprime" }) >>) >>),
       Star(Space), One({ "E", "W", "e", "w" }), Wb >>

ABBREVIATIONS ==
    { << "c", "o", "." >>, << "i", "n", "c", "." >>, << "l", "t", "d", "." >>,
      << "n", "o", "." >>, << "s", "e", "c", "." >>, << "t", "." >>,
      << "r", "." >>, << "n", "w", "." >>, << "n", "e", "." >>,
      << "s", "w", "." >>, << "s", "e", "." >>, << "f", "t", "." >>,
      << "i", "n", "." >>, << "d", "e", "g", "." >>, << "m", "i", "n", "." >>,
      << "r", "d", "." >>, << "a", "v", "e", "." >>, << "s", "t", "." >>,
      << "b", "l", "v", "d", "." >>, << "d", "r", "." >>,
      << "h", "w", "y", "." >> }

is_heading_line(line) ==
    LET text == Strip(line)
    IN  IF Len(text) = 0
        THEN FALSE
        ELSE \/ IsUpperStr(text) /\ Len(text) <= 80
             \/ \E k \in DOMAIN LEGAL_HEADING_PATTERNS :
                    SearchAnchored(LEGAL_HEADING_PATTERNS[k], text)

\* the cue words of line 54
StepCues ==
    { << "t", "h", "e", "n", "c", "e" >>, << "t", "h", "e", "n" >>,
      << "b", "e", "g", "i", "n", "n", "i", "n", "g" >>,
      << "c", "o", "m", "m", "e", "n", "c", "i", "n", "g" >> }

\* \b\d+(?:\.\d+)?\s*(feet|foot|ft|meters|meter|m)\b under re.IGNORECASE
DistanceRe ==
    << Wb, Plus(Digit), Opt(<< One({ "." }), Plus(Digit) >>), Star(Space),
       Alt(<< WordCI(<< "f", "e", "e", "t" >>), WordCI(<< "f", "o", "o", "t" >>),
              WordCI(<< "f", "t" >>),
              WordCI(<< "m", "e", "t", "e", "r", "s" >>),
              WordCI(<< "m", "e", "t", "e", "r" >>), WordCI(<< "m" >>) >>),
       Wb >>

is_legal_step_line(line) ==
    LET s == Strip(line)
    IN  IF Len(s) = 0
        THEN FALSE
        ELSE \/ \E cue \in StepCues : StartsWith(LowerStr(s), cue)
             \/ Search(BEARING_RE, s)
             \/ Search(DistanceRe, s)

(***************************************************************************)
(* The breakpoint set of chunk_text_for_rag: legal_chunker.py, 248-298.    *)
(***************************************************************************)
\* the (start, line) pairs of _line_iter: a line starts at 0 and after every
\* newline, and the last match of .*?(\n|$) is the empty one at len(text)
LineIter(text) ==
    LET n      == Len(text)
        starts == { 0, n } \cup { k \in 1..n : text[k] = "\n" }
        EndOf(st) ==
            LET nls == { k \in (st + 1)..n : text[k] = "\n" }
            IN  IF nls = {} THEN n ELSE SetMin(nls)
    IN  { << st, Slice(text, st, EndOf(st)) >> : st \in starts }

\* m.end() of every match of \n{2,}: the ends of the maximal newline runs
ParagraphEnds(text) ==
    { e \in 2..Len(text) :
        /\ text[e] = "\n"
        /\ text[e - 1] = "\n"
        /\ (e = Len(text) \/ text[e + 1] # "\n") }

\* lines 277-281
LineStartBreaks(text) ==
    { ln[1] : ln \in { l \in LineIter(text) :
                         /\ LET raw == RStripNl(l[2])
                            IN  is_heading_line(raw) \/ is_legal_step_line(raw)
                         /\ l[1] \notin { 0, Len(text) } } }

\* lines 287-288: the abbreviation test on the 8 characters before offset i
AfterAbbreviation(text, i) ==
    LET prev == LowerStr(Slice(text, Max2(0, i - 8), i))
    IN  \E abbr \in ABBREVIATIONS : EndsWith(prev, abbr)

\* the bearing test looking back 8 characters instead of 30
NearBearingShortWindow(text, i) ==
    Search(BEARING_RE, Slice(text, Max2(0, i - 8), i + 1) \o Slice(text, i + 1, i + 12))

\* lines 291-293: the bearing test on text[i-30 : i+1] + text[i+1 : i+12]
NearBearing(text, i) ==
    Search(BEARING_RE, Slice(text, Max2(0, i - 30), i + 1) \o Slice(text, i + 1, i + 12))

\* lines 284-296
PunctuationBreaks(text) ==
    { i + 1 : i \in { k \in 0..(Len(text) - 1) :
                        /\ text[k + 1] \in { ";", ".", ":" }
                        /\ ~AfterAbbreviation(text, k)
                        /\ ~NearBearing(text, k) } }

\* variant: the starts of heading and step lines are left out
BreaksWithoutLineStarts(text) ==
    { 0, Len(text) } \cup ParagraphEnds(text) \cup PunctuationBreaks(text)

\* lines 268-298; sorted(breaks) is the same set read in ascending order
Breaks(text) ==
    { 0, Len(text) } \cup ParagraphEnds(text) \cup LineStartBreaks(text)
        \cup PunctuationBreaks(text)

(***************************************************************************)
(* State.  One call frame is modelled at a time; the variables carry the   *)
(* names of the source's parameters and locals.                            *)
(***************************************************************************)
VARIABLES
    text,           \* the text being split
    min_chars,
    target_chars,
    max_chars,
    overlap_chars,
    by_section,     \* chunk_text_for_rag: the parameter by_section
    sorted_breaks,  \* chunk_text_for_rag: the breakpoint set
    i,              \* chunk_text_for_rag: the cursor
    chunks,         \* the segments produced so far, in order
    paras,          \* split_text_minmax: the paragraphs not yet handled
    current_parts,  \* split_text_minmax: the pieces of the growing chunk
    current_len,    \* split_text_minmax: their total length
    in_files,       \* the directory the split command reads: path -> content
    split_files,    \* the directory it writes and the merge command reads
    out_files,      \* the directory the merge command writes
    prog,           \* the command that runs, "" for a direct call
    recursive,      \* --recursive
    allow_partial,  \* --allow-partial
    ensure_newline_between, \* --ensure-newline-between
    files,          \* main: the files still to handle, in order
    src,            \* legal_cli.main: the file being chunked
    groups,         \* merge_cli.main: the groups still to merge, in dict order
    log,            \* merge_cli.main: the warnings printed so far
    part,           \* the stem, index and total a part is named from
    match,          \* merge_cli.main: m = SPLIT_RE.match(f.name)
    frame,          \* the locals of assemble_chunks or of chunk_overlap
    pc              \* where the call stands

vars ==
    << text, min_chars, target_chars, max_chars, overlap_chars, by_section,
       sorted_breaks, i, chunks, paras, current_parts, current_len,
       in_files, split_files, out_files, prog, recursive, allow_partial,
       ensure_newline_between, files, src, groups, log, part, match, frame,
       pc >>

\* the state of the command-line runs
cliVars ==
    << in_files, split_files, out_files, prog, recursive, allow_partial,
       ensure_newline_between, files, src, groups, log, part, match >>

\* the locals of split_text_minmax
mmLocals == << paras, current_parts, current_len >>

\* the locals of chunk_text_for_rag
ragLocals == << sorted_breaks, i >>

\* the empty directory, and the empty list
NoFiles == << >>

\* no part is being named, no name has been matched
NoPart == [stem |-> << >>, idx |-> 0, total |-> 0]

NoMatch == [matched |-> FALSE]

\* no call of assemble_chunks or chunk_overlap is under way
NoFrame == [fn |-> ""]

\* no command-line run is under way: the function is called directly
NoCli ==
    /\ in_files = NoFiles
    /\ split_files = NoFiles
    /\ out_files = NoFiles
    /\ prog = ""
    /\ recursive = FALSE
    /\ allow_partial = FALSE
    /\ ensure_newline_between = FALSE
    /\ files = << >>
    /\ src = << >>
    /\ groups = << >>
    /\ log = {}
    /\ part = NoPart
    /\ match = NoMatch

\* Bounds of the model
MaxLen == 4

MaxParam == 3

MaxOverlap == 2

MaxChunks == 4

\* "T" makes heading lines (an upper-case line) and, lower-cased, the
\* abbreviation "t."; "." is sentence punctuation; "\n" makes lines and paragraphs
Alphabet == { "T", ".", "\n" }

TextsUpTo(alphabet, n) == UNION { [1..k -> alphabet] : k \in 0..n }

(***************************************************************************)
(* chunk_text_for_rag: legal_chunker.py, lines 256-332.                    *)
(***************************************************************************)
\* a boundary search whose first tier takes the first breakpoint after the
\* cursor, whatever min_chars is
next_boundary_ignoring_min(start_idx) ==
    LET n          == Len(text)
        j_target   == Min2(start_idx + target_chars, n)
        j_max      == Min2(start_idx + max_chars, n)
        leq_target == { b \in sorted_breaks : start_idx < b /\ b <= j_target }
        gt_target  == { b \in sorted_breaks : j_target < b /\ b <= j_max }
    IN  IF leq_target # {} THEN SetMin(leq_target)
        ELSE IF gt_target # {} THEN SetMin(gt_target)
        ELSE j_max

\* lines 301-315
next_boundary(start_idx) ==
    LET n          == Len(text)
        j_min      == start_idx + min_chars
        j_target   == Min2(start_idx + target_chars, n)
        j_max      == Min2(start_idx + max_chars, n)
        leq_target == { b \in sorted_breaks : j_min <= b /\ b <= j_target }
        gt_target  == { b \in sorted_breaks : j_target < b /\ b <= j_max }
    IN  IF leq_target # {} THEN SetMax(leq_target)
        ELSE IF gt_target # {} THEN SetMin(gt_target)
        ELSE j_max

\* variant: the boundary search's answer is taken as it is, also when it
\* does not pass the cursor
CutFromUnguarded(start_idx) == next_boundary(start_idx)

\* lines 321-323: the boundary the loop cuts at from cursor i
CutFrom(start_idx) ==
    LET j == next_boundary(start_idx)
    IN  IF j <= start_idx THEN Min2(start_idx + max_chars, Len(text)) ELSE j

\* variant: the cursor moves back by twice the overlap
NextStartTwiceBack(j) == Max2(0, j - 2 * overlap_chars)

\* line 328: the cursor after cutting at j
NextStart(j) == Max2(0, j - overlap_chars)

\* variant: the loop also ends when the cursor does not advance
LoopGoesOnIfAdvancing(j) == i < Max2(0, j - overlap_chars)

\* lines 328-331: whether the loop goes on after cutting at j
LoopGoesOn(j) == Max2(0, j - overlap_chars) < j

\* lines 264-298 and 317-318: the empty-text return, the breakpoint set
ChunkCall ==
    /\ pc = "call"
    /\ IF Len(text) = 0
       THEN /\ pc' = "done"
            /\ sorted_breaks' = {}
       ELSE /\ pc' = "loop"
            /\ sorted_breaks' = Breaks(text)
    /\ chunks' = << >>
    /\ i' = 0
    /\ UNCHANGED << text, min_chars, target_chars, max_chars, overlap_chars,
                    by_section,
                    mmLocals, cliVars, frame >>

\* lines 319-331: one iteration of the while loop
ChunkLoop ==
    /\ pc = "loop"
    /\ Len(chunks) < MaxChunks
    /\ LET n == Len(text)
           j == CutFrom(i)
       IN  /\ chunks' = Append(chunks, Slice(text, i, j))
           /\ IF j >= n
              THEN /\ pc' = "done"
                   /\ i' = i
              ELSE /\ i' = NextStart(j)
                   /\ pc' = IF LoopGoesOn(j) /\ i' < n THEN "loop" ELSE "done"
    /\ UNCHANGED << text, min_chars, target_chars, max_chars, overlap_chars,
                    by_section,
                    sorted_breaks, mmLocals, cliVars, frame >>

Init ==
    /\ text \in TextsUpTo(Alphabet, MaxLen)
    /\ min_chars \in 0..MaxParam
    /\ target_chars \in 0..MaxParam
    /\ max_chars \in 0..MaxParam
    /\ overlap_chars \in 0..MaxOverlap
    /\ by_section \in BOOLEAN
    /\ sorted_breaks = {}
    /\ i = 0
    /\ chunks = << >>
    /\ paras = << >>
    /\ current_parts = << >>
    /\ current_len = 0
    /\ NoCli
    /\ frame = NoFrame
    /\ pc = "call"

Next == ChunkCall \/ ChunkLoop

Spec == Init /\ [][Next]_vars

(***************************************************************************)
(* Properties of chunk_text_for_rag.                                       *)
(***************************************************************************)
\* the parameters as the command line's defaults order them
WellFormedParams ==
    /\ 1 <= min_chars
    /\ min_chars <= target_chars
    /\ target_chars <= max_chars

\* a whole line or a whole paragraph of t
AtomicUnits(t) ==
    SeqRange(SplitOn(t, << "\n" >>)) \cup SeqRange(SplitOn(t, << "\n", "\n" >>))

\* C1: with overlap_chars = 0 the segments returned, concatenated in order,
\* are the input text (stated for well-formed parameters, where the claim
\* already fails)
C1_NoOverlapRoundTrip ==
    (pc = "done" /\ overlap_chars = 0 /\ WellFormedParams)
        => Concat(chunks) = text

\* C2: an iteration whose overlap is at least the length of the segment it
\* emits (so the cursor does not move forward) ends the loop
C2_StuckCursorStops ==
    [][(pc = "loop" /\ WellFormedParams
          /\ overlap_chars >= Len(chunks'[Len(chunks')]))
        => pc' = "done"]_vars

\* C4: every segment is at most max_chars long unless it is a whole line or
\* paragraph of the text that is itself longer than max_chars (stated for
\* positive min_chars <= target_chars, where the claim already fails)
C4_SegmentsWithinMax ==
    (1 <= min_chars /\ min_chars <= target_chars /\ 1 <= max_chars)
        => \A k \in DOMAIN chunks :
              \/ Len(chunks[k]) <= max_chars
              \/ chunks[k] \in AtomicUnits(text)

\* C5: no breakpoint inside the text lies right after a ';', '.' or ':' when
\* the 8 characters before that offset, lower-cased, end with an abbreviation
C5_NoBreakAfterAbbreviation ==
    \A b \in sorted_breaks :
        ~ /\ 0 < b
          /\ b < Len(text)
          /\ text[b] \in { ";", ".", ":" }
          /\ \E abbr \in ABBREVIATIONS :
                EndsWith(LowerStr(Slice(text, Max2(0, b - 8), b)), abbr)

\* C8 as stated: a non-empty text shorter than min_chars comes back as one
\* segment, the whole text, whatever target_chars and max_chars are
C8_ShortTextAnyParams ==
    (pc = "done" /\ 0 < Len(text) /\ Len(text) < min_chars)
        => chunks = << text >>

\* C8 amended: ... provided target_chars and max_chars are at least the
\* length of the text (as they are whenever min <= target <= max); the one
\* segment is emitted by the first iteration
C8_ShortTextOneSegment ==
    (/\ 0 < Len(text)
     /\ Len(text) < min_chars
     /\ Len(text) <= target_chars
     /\ Len(text) <= max_chars)
        => /\ pc = "loop" => chunks = << >>
           /\ pc = "done" => chunks = << text >>

\* a short text with a breakpoint strictly inside it came back whole
C8_Witness ==
    /\ pc = "done"
    /\ Len(text) < min_chars
    /\ Len(text) <= target_chars
    /\ Len(text) <= max_chars
    /\ \E b \in sorted_breaks : 0 < b /\ b < Len(text)
    /\ chunks = << text >>

(***************************************************************************)
(* Texts around a compass bearing, chunked with the defaults of lines      *)
(* 258-261.                                                                *)
(***************************************************************************)
DefaultMinChars == 600

DefaultTargetChars == 1000

DefaultMaxChars == 1400

DefaultOverlapChars == 150

\* N 45deg30'15" E
BearingToken ==
    << "N", " ", "4", "5", "deg", "3", "0", "'", "1", "5", "\"", " ", "E" >>

\* the longest text put before and after the bearing
MaxPad == 2

PadAlphabet == { "x", " ", ".", "\n" }

InitBearing ==
    /\ \E before \in TextsUpTo(PadAlphabet, MaxPad) :
       \E after \in TextsUpTo(PadAlphabet, MaxPad) \ { << >> } :
           text = before \o BearingToken \o << "." >> \o after
    /\ min_chars = DefaultMinChars
    /\ target_chars = DefaultTargetChars
    /\ max_chars = DefaultMaxChars
    /\ overlap_chars = DefaultOverlapChars
    /\ by_section = TRUE
    /\ sorted_breaks = {}
    /\ i = 0
    /\ chunks = << >>
    /\ paras = << >>
    /\ current_parts = << >>
    /\ current_len = 0
    /\ NoCli
    /\ frame = NoFrame
    /\ pc = "call"

SpecBearing == InitBearing /\ [][Next]_vars

\* the offsets p at which the bearing token stands in the text as a token
\* (not glued to a word character before it), followed by "." and more text
BearingSites ==
    { p \in 0..(Len(text) - Len(BearingToken) - 2) :
        /\ Slice(text, p, p + Len(BearingToken)) = BearingToken
        /\ text[p + Len(BearingToken) + 1] = "."
        /\ (p = 0 \/ text[p] \notin WordChar) }

\* C6: where the bearing token N 45deg30'15" E is followed by "." and more
\* text, the breakpoint set has no offset strictly inside the token and not
\* the offset right after that "."
C6_NoBreakAtBearing ==
    pc # "call"
        => \A p \in BearingSites :
              /\ \A b \in sorted_breaks :
                    ~(p < b /\ b < p + Len(BearingToken))
              /\ (p + Len(BearingToken) + 1) \notin sorted_breaks

\* the breakpoints of such a text were built, and a "." elsewhere in the
\* text did become a breakpoint
C6_Witness ==
    /\ pc # "call"
    /\ BearingSites # {}
    /\ \E b \in sorted_breaks :
          /\ 0 < b
          /\ b < Len(text)
          /\ text[b] = "."

(***************************************************************************)
(* split_text_minmax: cli.py, lines 7-114.                                 *)
(***************************************************************************)
\* a hard cut whose pieces are one character longer than the maximum
RECURSIVE HardCutOneTooWide(_, _, _, _)
HardCutOneTooWide(s, start, mn, mx) ==
    IF start >= Len(s)
    THEN << >>
    ELSE LET end == Min2(start + mx + 1, Len(s))
         IN  << Slice(s, start, end) >> \o HardCutOneTooWide(s, end, mn, mx)

\* lines 64-72: the hard cut of the piece s from offset start on, with the
\* thresholds mn <= mx
RECURSIVE HardCut(_, _, _, _)
HardCut(s, start, mn, mx) ==
    IF start >= Len(s)
    THEN << >>
    ELSE LET L    == Len(s)
             end0 == Min2(start + mx, L)
             end  == IF end0 - start < mn /\ end0 < L
                     THEN Min2(start + Max2(end0 - start, mn), L)
                     ELSE end0
         IN  << Slice(s, start, end) >> \o HardCut(s, end, mn, mx)

\* lines 40-78: the loop over the lines of an oversized paragraph; st holds
\* acc, acc_len and chunks
RECURSIVE LineLoop(_, _, _, _)
LineLoop(lines, st, mn, mx) ==
    IF Len(lines) = 0
    THEN st
    ELSE LET line  == Head(lines)
             piece == (IF Len(st.acc) > 0 THEN << "\n" >> ELSE << >>) \o line
             ps    == Len(piece)
             nxt   ==
                IF st.acc_len + ps <= mx
                THEN [st EXCEPT !.acc = Append(@, piece), !.acc_len = @ + ps]
                ELSE IF st.acc_len < mn
                THEN [acc     |-> << >>,
                      acc_len |-> 0,
                      chunks  |-> Append(st.chunks, Concat(Append(st.acc, piece)))]
                ELSE LET flushed == IF Len(st.acc) > 0
                                    THEN Append(st.chunks, Concat(st.acc))
                                    ELSE st.chunks
                     IN  IF ps > mx
                         THEN [acc     |-> << >>,
                               acc_len |-> 0,
                               chunks  |-> flushed \o HardCut(piece, 0, mn, mx)]
                         ELSE [acc     |-> << line >>,
                               acc_len |-> Len(line),
                               chunks  |-> flushed]
         IN  LineLoop(Tail(lines), nxt, mn, mx)

\* lines 79-86: what is left in acc joins the previous chunk when it is
\* shorter than the minimum
CloseAcc(st, mn) ==
    IF Len(st.acc) = 0
    THEN st.chunks
    ELSE IF Len(Concat(st.acc)) < mn /\ Len(st.chunks) > 0
    THEN LET prev == st.chunks[Len(st.chunks)]
         IN  Append(SubSeq(st.chunks, 1, Len(st.chunks) - 1),
                    prev \o << "\n" >> \o Concat(st.acc))
    ELSE Append(st.chunks, Concat(st.acc))

\* lines 7-26: the guard, the swap, the split into paragraphs
SplitCall ==
    /\ pc = "split_call"
    /\ IF min_chars <= 0 \/ max_chars <= 0
       THEN /\ chunks' = << text >>
            /\ pc' = "done"
            /\ paras' = << >>
            /\ UNCHANGED << min_chars, max_chars, frame >>
       ELSE /\ min_chars' = Min2(min_chars, max_chars)
            /\ max_chars' = Max2(min_chars, max_chars)
            /\ chunks' = << >>
            /\ paras' = SplitOn(text, << "\n", "\n" >>)
            /\ pc' = "paras"
    /\ current_parts' = << >>
    /\ current_len' = 0
    /\ UNCHANGED << text, target_chars, overlap_chars,
                    by_section, ragLocals, cliVars, frame >>

\* lines 27-104: one iteration of the loop over the paragraphs
SplitPara ==
    /\ pc = "paras"
    /\ Len(paras) > 0
    /\ LET para     == Head(paras)
           para_len == Len(para)
           sep      == IF Len(current_parts) > 0 THEN << "\n", "\n" >> ELSE << >>
           extra    == Len(sep)
       IN  IF para_len + extra > max_chars
           THEN \* lines 32-87
                LET flush   == current_len >= min_chars
                    chunks0 == IF flush /\ Len(current_parts) > 0
                               THEN Append(chunks, Concat(current_parts))
                               ELSE chunks
                    st      == LineLoop(SplitOn(para, << "\n" >>),
                                        [acc |-> << >>, acc_len |-> 0,
                                         chunks |-> chunks0],
                                        min_chars, max_chars)
                IN  /\ chunks' = CloseAcc(st, min_chars)
                    /\ current_parts' = IF flush THEN << >> ELSE current_parts
                    /\ current_len' = IF flush THEN 0 ELSE current_len
           ELSE \* lines 89-104
                LET cand_len == current_len + extra + para_len
                IN  IF cand_len <= max_chars
                    THEN /\ current_parts' = Append(current_parts, sep \o para)
                         /\ current_len' = cand_len
                         /\ chunks' = chunks
                    ELSE IF current_len < min_chars
                    THEN /\ chunks' = Append(chunks,
                                         Concat(Append(current_parts, sep \o para)))
                         /\ current_parts' = << >>
                         /\ current_len' = 0
                    ELSE /\ chunks' = IF Len(current_parts) > 0
                                      THEN Append(chunks, Concat(current_parts))
                                      ELSE chunks
                         /\ current_parts' = << para >>
                         /\ current_len' = para_len
    /\ paras' = Tail(paras)
    /\ pc' = "paras"
    /\ UNCHANGED << text, min_chars, target_chars, max_chars, overlap_chars,
                    by_section,
                    ragLocals, cliVars, frame >>

\* lines 106-114: the remainder
SplitFinish ==
    /\ pc = "paras"
    /\ Len(paras) = 0
    /\ LET last == Concat(current_parts)
       IN  chunks' =
             IF Len(current_parts) = 0
             THEN chunks
             ELSE IF Len(last) < min_chars /\ Len(chunks) > 0
             THEN Append(SubSeq(chunks, 1, Len(chunks) - 1),
                         chunks[Len(chunks)] \o << "\n", "\n" >> \o last)
             ELSE Append(chunks, last)
    /\ pc' = "done"
    /\ UNCHANGED << text, min_chars, target_chars, max_chars, overlap_chars,
                    by_section,
                    ragLocals, mmLocals, cliVars, frame >>

\* Bounds of the fixed-window model
MaxLenMM == 5

MaxParamMM == 3

AlphabetMM == { "a", "b", "\n" }

InitMinMax ==
    /\ text \in TextsUpTo(AlphabetMM, MaxLenMM)
    /\ min_chars \in 0..MaxParamMM
    /\ max_chars \in 0..MaxParamMM
    /\ target_chars = 0
    /\ overlap_chars = 0
    /\ by_section = TRUE
    /\ sorted_breaks = {}
    /\ i = 0
    /\ chunks = << >>
    /\ paras = << >>
    /\ current_parts = << >>
    /\ current_len = 0
    /\ NoCli
    /\ frame = NoFrame
    /\ pc = "split_call"

NextMinMax == SplitCall \/ SplitPara \/ SplitFinish

SpecMinMax == InitMinMax /\ [][NextMinMax]_vars

(***************************************************************************)
(* Properties of split_text_minmax.                                        *)
(***************************************************************************)
PositiveThresholds == min_chars > 0 /\ max_chars > 0

\* C7: the splitting routines return the empty list for the empty text
\* (here split_text_minmax, with positive thresholds)
C7_EmptyTextNoChunks ==
    (pc = "done" /\ Len(text) = 0 /\ PositiveThresholds) => chunks = << >>

\* C9 as stated: every chunk is at most max_chars long unless it is a single
\* line or paragraph of the input that is itself longer than max_chars
C9_ChunksWithinMax ==
    (pc # "split_call" /\ PositiveThresholds)
        => \A k \in DOMAIN chunks :
              \/ Len(chunks[k]) <= max_chars
              \/ chunks[k] \in AtomicUnits(text)

\* a chunk made to satisfy the minimum: a buffer shorter than mn joined by a
\* newline to what follows it, or to the chunk before it
MinOverflow(c, mn) ==
    \E k \in DOMAIN c :
        /\ c[k] = "\n"
        /\ (k - 1 < mn \/ Len(c) - k < mn)

\* C9 amended: every chunk is at most max_chars long unless it is a single
\* line of the input that is itself longer, or it is an overflow made to
\* satisfy the minimum (a buffer shorter than min_chars joined by a newline
\* to the unit after it or to the chunk before it)
C9_ChunksWithinMaxOrOverflow ==
    (pc # "split_call" /\ PositiveThresholds)
        => \A k \in DOMAIN chunks :
              \/ Len(chunks[k]) <= max_chars
              \/ chunks[k] \in SeqRange(SplitOn(text, << "\n" >>))
              \/ MinOverflow(chunks[k], min_chars)

\* a finished split that closed a chunk within max_chars and also let one
\* overflow it
C9_Witness ==
    /\ pc = "done"
    /\ PositiveThresholds
    /\ \E k \in DOMAIN chunks : Len(chunks[k]) > max_chars
    /\ \E k \in DOMAIN chunks : Len(chunks[k]) = max_chars
    /\ Len(chunks) >= 3

\* C10: when more than one chunk is returned, every chunk is at least
\* min_chars long
C10_ChunksReachMin ==
    (pc = "done" /\ PositiveThresholds /\ Len(chunks) > 1)
        => \A k \in DOMAIN chunks : Len(chunks[k]) >= min_chars

(***************************************************************************)
(* Files.  A path is the sequence of its parts below the directory given   *)
(* on the command line; a directory is a function from paths to contents.  *)
(***************************************************************************)
DigitSeq == << "0", "1", "2", "3", "4", "5", "6", "7", "8", "9" >>

\* the characters in code point order, for the comparison of strings
CodeOrder ==
    << "\t", "\n", "\r", " ", "\"", "'", "." >> \o DigitSeq \o << ":", ";" >>
        \o UpperSeq \o << "_" >> \o LowerSeq

Rank(c) == CHOOSE k \in DOMAIN CodeOrder : CodeOrder[k] = c

\* a < b for two strings
RECURSIVE StrLess(_, _)
StrLess(a, b) ==
    IF Len(b) = 0 THEN FALSE
    ELSE IF Len(a) = 0 THEN TRUE
    ELSE IF Head(a) = Head(b) THEN StrLess(Tail(a), Tail(b))
    ELSE Rank(Head(a)) < Rank(Head(b))

\* a < b for two paths, part by part
RECURSIVE PathLess(_, _)
PathLess(a, b) ==
    IF Len(b) = 0 THEN FALSE
    ELSE IF Len(a) = 0 THEN TRUE
    ELSE IF Head(a) = Head(b) THEN PathLess(Tail(a), Tail(b))
    ELSE StrLess(Head(a), Head(b))

\* sorted(paths)
RECURSIVE SortedPaths(_)
SortedPaths(S) ==
    IF S = {}
    THEN << >>
    ELSE LET least == CHOOSE a \in S : \A b \in S \ { a } : PathLess(a, b)
         IN  << least >> \o SortedPaths(S \ { least })

\* str(n) for n >= 0
RECURSIVE Str(_)
Str(n) ==
    IF n < 10
    THEN << DigitSeq[n + 1] >>
    ELSE Str(n \div 10) \o << DigitSeq[(n % 10) + 1] >>

\* int(d) for a string of digits
RECURSIVE ParseInt(_)
ParseInt(d) ==
    IF Len(d) = 0
    THEN 0
    ELSE 10 * ParseInt(SubSeq(d, 1, Len(d) - 1))
            + (CHOOSE k \in 0..9 : DigitSeq[k + 1] = d[Len(d)])

Txt == << ".", "t", "x", "t" >>

SplitTag == << "_", "s", "p", "l", "i", "t", "_" >>

OfTag == << "_", "o", "f", "_" >>

\* Path.name, Path.parent, Path.stem
NameOf(path) == path[Len(path)]

ParentOf(path) == SubSeq(path, 1, Len(path) - 1)

StemOf(path) ==
    LET name == NameOf(path)
        dots == { k \in 2..Len(name) : name[k] = "." }
    IN  IF dots = {} THEN name ELSE SubSeq(name, 1, SetMax(dots) - 1)

\* in_dir.rglob("*.txt") if recursive else in_dir.glob("*.txt")
Glob(dir, rec) ==
    { path \in DOMAIN dir :
        /\ EndsWith(NameOf(path), Txt)
        /\ (rec \/ Len(path) = 1) }

\* the content of a file whose bytes are no UTF-8 text: read_text raises
\* UnicodeDecodeError on it, shutil.copy2 copies it like any other
Undecodable == << "invalid-utf8" >>

\* dst.write_text(content)
WriteFile(dir, path, content) == (path :> content) @@ dir

\* the orders in which a set of paths can be enumerated
Enumerations(S) ==
    { order \in [1..Cardinality(S) -> S] :
        \A a, b \in 1..Cardinality(S) : a # b => order[a] # order[b] }

\* f"{stem}_split_{idx}_of_{total}.txt": cli.py 161, legal_cli.py 62
SplitName(stem, idx, total) ==
    stem \o SplitTag \o Str(idx) \o OfTag \o Str(total) \o Txt

\* what follows the base in SPLIT_RE: _split_(\d+)_of_(\d+)\.txt$
SplitTailRe ==
    Word(SplitTag) \o << Plus(Digit) >> \o Word(OfTag) \o << Plus(Digit) >>
        \o Word(Txt) \o << Eos >>

\* the longest run of digits of s from offset k on
DigitsFrom(s, k) ==
    LET stop == { e \in (k + 1)..Len(s) : s[e] \notin Digit }
    IN  Slice(s, k, IF stop = {} THEN Len(s) ELSE SetMin(stop) - 1)

\* SPLIT_RE.match(name): merge_cli.py 9 and 46-51.  The greedy (?P<base>.+)
\* takes the longest base after which the rest of the pattern matches.
SplitMatch(name) ==
    LET cuts == { k \in 1..Len(name) :
                    /\ \A e \in 1..k : name[e] # "\n"
                    /\ Ends(SplitTailRe, Slice(name, k, Len(name)), { 0 }) # {} }
    IN  IF cuts = {}
        THEN [matched |-> FALSE]
        ELSE LET k   == SetMax(cuts)
                 idx == DigitsFrom(name, k + Len(SplitTag))
                 tot == DigitsFrom(name, k + Len(SplitTag) + Len(idx) + Len(OfTag))
             IN  [matched |-> TRUE, base |-> Slice(name, 0, k),
                  idx |-> ParseInt(idx), total |-> ParseInt(tot)]

\* the names the split commands write for the stems a and b, and a name
\* with a leading zero: their matches are computed once
TabledNames ==
    { stem \o Txt : stem \in { << "a" >>, << "b" >>, << "c" >> } }
        \cup { SplitName(stem, idx, total) :
                  stem \in { << "a" >>, << "b" >> }, idx \in 1..10, total \in 1..10 }
        \cup { << "a" >> \o SplitTag \o << "0", "1" >> \o OfTag \o << "2" >> \o Txt }

SplitMatchTable == [name \in TabledNames |-> SplitMatch(name)]

\* SPLIT_RE.match(name), looked up when it was computed before
ParseSplit(name) ==
    IF name \in TabledNames THEN SplitMatchTable[name] ELSE SplitMatch(name)

IsSplitName(name) == ParseSplit(name).matched

(***************************************************************************)
(* legal-chunk-text: legal_cli.py, main, lines 27-65.                      *)
(***************************************************************************)
\* lines 31-38: the files to chunk, sorted
LegalMain ==
    /\ pc = "legal_main"
    /\ files' = SortedPaths(Glob(in_files, recursive))
    /\ pc' = IF files' = << >> THEN "legal_exit" ELSE "legal_loop"
    /\ UNCHANGED << text, min_chars, target_chars, max_chars, overlap_chars,
                    by_section,
                    chunks, ragLocals, mmLocals, in_files, split_files,
                    out_files, prog, recursive, allow_partial,
                    ensure_newline_between, src, groups, log, part, match,
                    frame >>

\* lines 40-49: the next file is read and handed to chunk_text_for_rag; a
\* file that does not decode raises out of main, which ends the run
LegalRead ==
    /\ pc = "legal_loop"
    /\ prog = "legal-chunk-text"
    /\ files # << >>
    /\ src' = Head(files)
    /\ IF in_files[Head(files)] = Undecodable
       THEN /\ text' = text
            /\ pc' = "legal_crash"
       ELSE /\ text' = in_files[Head(files)]
            /\ pc' = "call"
    /\ UNCHANGED << min_chars, target_chars, max_chars, overlap_chars,
                    by_section, chunks,
                    ragLocals, mmLocals, in_files, split_files, out_files,
                    prog, recursive, allow_partial, ensure_newline_between, files,
                    groups, log, part, match, frame >>

\* variant: a single chunk is written with the suffix _split_1_of_1 too
ChunkFilesAlwaysSuffixed(path, cs) ==
    IF Len(cs) = 0
    THEN (ParentOf(path) \o << StemOf(path) \o Txt >>) :> << >>
    ELSE [dst \in { ParentOf(path) \o << SplitName(StemOf(path), idx, Len(cs)) >> :
                        idx \in 1..Len(cs) }
            |-> cs[CHOOSE idx \in 1..Len(cs) :
                     dst = ParentOf(path)
                             \o << SplitName(StemOf(path), idx, Len(cs)) >>]]

\* lines 51-64: the chunks of src are written
ChunkFiles(path, cs) ==
    IF Len(cs) <= 1
    THEN (ParentOf(path) \o << StemOf(path) \o Txt >>)
            :> (IF Len(cs) = 0 THEN << >> ELSE cs[1])
    ELSE [dst \in { ParentOf(path) \o << SplitName(StemOf(path), idx, Len(cs)) >> :
                        idx \in 1..Len(cs) }
            |-> cs[CHOOSE idx \in 1..Len(cs) :
                     dst = ParentOf(path)
                             \o << SplitName(StemOf(path), idx, Len(cs)) >>]]

LegalWrite ==
    /\ pc = "done"
    /\ prog = "legal-chunk-text"
    /\ src # << >>
    /\ split_files' = ChunkFiles(src, chunks) @@ split_files
    /\ files' = Tail(files)
    /\ pc' = IF Tail(files) = << >> THEN "legal_exit" ELSE "legal_loop"
    /\ UNCHANGED << text, min_chars, target_chars, max_chars, overlap_chars,
                    by_section,
                    chunks, ragLocals, mmLocals, in_files, out_files,
                    prog, recursive, allow_partial, ensure_newline_between, src,
                    groups, log, part, match, frame >>

(***************************************************************************)
(* merge-split-files: merge_cli.py, main, lines 33-110.                    *)
(***************************************************************************)
\* Path.relative_to(in_dir) of f.parent, and the key of line 53
KeyOf(path) == << ParentOf(path), ParseSplit(NameOf(path)).base >>

\* lines 44-54: groups.setdefault(key, []).append((idx, total, f)), the keys
\* in the order of their first file; parsed[f] is SPLIT_RE.match(f.name)
RECURSIVE BuildGroups(_, _, _)
BuildGroups(order, parsed, gs) ==
    IF Len(order) = 0
    THEN gs
    ELSE LET f == Head(order)
             m == parsed[f]
         IN  IF ~m.matched
             THEN BuildGroups(Tail(order), parsed, gs)
             ELSE LET key   == << ParentOf(f), m.base >>
                      entry == [idx |-> m.idx, total |-> m.total, path |-> f]
                      at    == { g \in DOMAIN gs : gs[g].key = key }
                  IN  IF at = {}
                      THEN BuildGroups(Tail(order), parsed,
                              Append(gs, [key |-> key, entries |-> << entry >>]))
                      ELSE BuildGroups(Tail(order), parsed,
                              [gs EXCEPT ![SetMin(at)].entries = Append(@, entry)])

\* a sort of the entries by file name, which puts part 10 before part 9
RECURSIVE SortByName(_)
SortByName(entries) ==
    IF Len(entries) = 0
    THEN << >>
    ELSE LET first == CHOOSE k \in DOMAIN entries :
                         \A j \in DOMAIN entries \ { k } :
                            PathLess(entries[k].path, entries[j].path)
         IN  << entries[first] >>
                \o SortByName(SubSeq(entries, 1, first - 1)
                                \o SubSeq(entries, first + 1, Len(entries)))

\* line 70: entries.sort(key=lambda t: t[0]), a stable sort
RECURSIVE SortByIdx(_)
SortByIdx(entries) ==
    IF Len(entries) = 0
    THEN << >>
    ELSE LET least == SetMin({ entries[k].idx : k \in DOMAIN entries })
             first == SetMin({ k \in DOMAIN entries : entries[k].idx = least })
         IN  << entries[first] >>
                \o SortByIdx(SubSeq(entries, 1, first - 1)
                               \o SubSeq(entries, first + 1, Len(entries)))

\* variant: with ensure, a newline is put between any two pieces
RECURSIVE JoinPiecesAlwaysNewline(_, _, _, _)
JoinPiecesAlwaysNewline(entries, dir, pieces, ensure) ==
    IF Len(entries) = 0
    THEN Concat(pieces)
    ELSE IF dir[Head(entries).path] = Undecodable
    THEN JoinPiecesAlwaysNewline(Tail(entries), dir, pieces, ensure)
    ELSE LET content == dir[Head(entries).path]
             sepd    == IF ensure /\ Len(pieces) > 0
                        THEN Append(pieces, << "\n" >>)
                        ELSE pieces
         IN  JoinPiecesAlwaysNewline(Tail(entries), dir,
                                     Append(sepd, content), ensure)

\* lines 86-95: the pieces read in order, a newline put between two of them
\* when asked for and the earlier one does not end with one; a piece that
\* does not decode is left out with a warning
RECURSIVE JoinPieces(_, _, _, _)
JoinPieces(entries, dir, pieces, ensure) ==
    IF Len(entries) = 0
    THEN Concat(pieces)
    ELSE IF dir[Head(entries).path] = Undecodable
    THEN JoinPieces(Tail(entries), dir, pieces, ensure)
    ELSE LET content == dir[Head(entries).path]
             sepd    == IF /\ ensure
                           /\ Len(pieces) > 0
                           /\ ~EndsWith(pieces[Len(pieces)], << "\n" >>)
                        THEN Append(pieces, << "\n" >>)
                        ELSE pieces
         IN  JoinPieces(Tail(entries), dir, Append(sepd, content), ensure)

\* variant: the copies are put at the top of the output directory
CopyNonSplitFlat(order, dir, out) ==
    [path \in { << NameOf(f) >> : f \in { g \in SeqRange(order) :
                                            ~IsSplitName(NameOf(g)) } }
        |-> dir[CHOOSE f \in SeqRange(order) : << NameOf(f) >> = path]]
        @@ out

\* lines 56-66 and 99-108: shutil.copy2 of every file that is no split file
CopyNonSplit(order, dir, out) ==
    [path \in { f \in SeqRange(order) : ~IsSplitName(NameOf(f)) } |-> dir[path]]
        @@ out

\* lines 37-66: the files in the order the directory yields them, the groups,
\* and the copy of everything when there is no group
MergeMain ==
    /\ pc \in { "legal_exit", "merge_main" }
    /\ prog' = "merge-split-files"
    /\ LET found  == Glob(split_files, recursive)
           parsed == [f \in found |-> ParseSplit(NameOf(f))]
       IN  \E order \in Enumerations(found) :
              /\ files' = order
              /\ groups' = BuildGroups(order, parsed, << >>)
              /\ IF groups' = << >>
                 THEN /\ out_files' =
                           CopyNonSplit(order, split_files, out_files)
                      /\ pc' = "merge_exit"
                 ELSE /\ out_files' = out_files
                      /\ pc' = "merge_groups"
    /\ UNCHANGED << text, min_chars, target_chars, max_chars, overlap_chars,
                    by_section, chunks, ragLocals, mmLocals, in_files,
                    split_files, recursive, allow_partial,
                    ensure_newline_between, src, log, part, match, frame >>

\* the total taken from the first entry alone
TotalOfFirst(entries) == { entries[1].total }

\* line 71: {t for _, t, _ in entries}
DeclaredTotals(entries) == { entries[k].total : k \in DOMAIN entries }

\* a missing-parts test that looks only below the largest index present
MissingPartsBelowLast(total, present) ==
    { n \in 1..SetMax(present \cup { 0 }) : n \notin present }

\* line 77: [i for i in range(1, total + 1) if i not in present]
MissingParts(total, present) == { n \in 1..total : n \notin present }

\* lines 68-97: one iteration of the loop over the groups
MergeGroup ==
    /\ pc = "merge_groups"
    /\ groups # << >>
    /\ LET g       == Head(groups)
           entries == SortByIdx(g.entries)
           totals  == DeclaredTotals(entries)
           total   == CHOOSE t \in totals : TRUE
           present == { entries[k].idx : k \in DOMAIN entries }
           missing == MissingParts(total, present)
           dst     == g.key[1] \o << g.key[2] \o Txt >>
       IN  IF Cardinality(totals) # 1
           THEN /\ out_files' = out_files
                /\ log' = log \cup { << "inconsistent totals", g.key >> }
           ELSE IF missing # {} /\ ~allow_partial
           THEN /\ out_files' = out_files
                /\ log' = log \cup { << "missing parts", g.key >> }
           ELSE /\ out_files' =
                     WriteFile(out_files, dst,
                               JoinPieces(entries, split_files, << >>,
                                          ensure_newline_between))
                /\ log' = log \cup
                     { << "failed to read", entries[k].path >> :
                         k \in { e \in DOMAIN entries :
                                   split_files[entries[e].path] = Undecodable } }
    /\ groups' = Tail(groups)
    /\ pc' = IF Tail(groups) = << >> THEN "merge_copy" ELSE "merge_groups"
    /\ UNCHANGED << text, min_chars, target_chars, max_chars, overlap_chars,
                    by_section, chunks, ragLocals, mmLocals, in_files,
                    split_files, prog, recursive, allow_partial,
                    ensure_newline_between, files, src, part, match, frame >>

\* lines 99-110
MergeCopy ==
    /\ pc = "merge_copy"
    /\ out_files' = CopyNonSplit(files, split_files, out_files)
    /\ pc' = "merge_exit"
    /\ UNCHANGED << text, min_chars, target_chars, max_chars, overlap_chars,
                    by_section,
                    chunks, ragLocals, mmLocals, in_files, split_files,
                    prog, recursive, allow_partial, ensure_newline_between, files,
                    src, groups, log, part, match, frame >>

(***************************************************************************)
(* Split, then merge: legal-chunk-text writes the directory that           *)
(* merge-split-files then reads.                                           *)
(***************************************************************************)
\* Bounds of the pipeline model
MaxLenFile == 3

MaxParamCli == 2

AlphabetFile == { "a", "\n" }

SourcePaths ==
    { << << "a" >> \o Txt >>, << << "s", "u", "b" >>, << "a" >> \o Txt >> }

InitPipeline ==
    /\ \/ in_files = NoFiles
       \/ \E path \in SourcePaths :
          \E content \in TextsUpTo(AlphabetFile, MaxLenFile) :
              in_files = (path :> content)
    /\ min_chars \in 1..MaxParamCli
    /\ target_chars \in min_chars..MaxParamCli
    /\ max_chars \in target_chars..MaxParamCli
    /\ overlap_chars \in 0..1
    /\ by_section \in BOOLEAN
    /\ prog = "legal-chunk-text"
    /\ recursive \in BOOLEAN
    /\ allow_partial \in BOOLEAN
    /\ ensure_newline_between \in BOOLEAN
    /\ split_files = NoFiles
    /\ out_files = NoFiles
    /\ files = << >>
    /\ src = << >>
    /\ groups = << >>
    /\ log = {}
    /\ part = NoPart
    /\ match = NoMatch
    /\ frame = NoFrame
    /\ text = << >>
    /\ sorted_breaks = {}
    /\ i = 0
    /\ chunks = << >>
    /\ paras = << >>
    /\ current_parts = << >>
    /\ current_len = 0
    /\ pc = "legal_main"

NextPipeline ==
    \/ LegalMain
    \/ LegalRead
    \/ ChunkCall
    \/ ChunkLoop
    \/ LegalWrite
    \/ MergeMain
    \/ MergeGroup
    \/ MergeCopy

SpecPipeline == InitPipeline /\ [][NextPipeline]_vars

\* C3: split with overlap_chars = 0, then merge with allow_partial and
\* ensure_newline_between off: every source text is found again, unchanged,
\* in the file <base>.txt of the merge output
C3_SplitMergeIdentity ==
    (/\ pc = "merge_exit"
     /\ overlap_chars = 0
     /\ ~allow_partial
     /\ ~ensure_newline_between)
        => \A path \in Glob(in_files, recursive) :
              /\ path \in DOMAIN out_files
              /\ out_files[path] = in_files[path]

(***************************************************************************)
(* split-text-files: cli.py, main, lines 130-164.                          *)
(***************************************************************************)
\* lines 134-141: the files to split, sorted
SplitMain ==
    /\ pc = "split_main"
    /\ files' = SortedPaths(Glob(in_files, recursive))
    /\ pc' = IF files' = << >> THEN "split_exit" ELSE "split_loop"
    /\ UNCHANGED << text, min_chars, target_chars, max_chars, overlap_chars,
                    by_section, chunks, ragLocals, mmLocals, in_files,
                    split_files, out_files, prog, recursive, allow_partial,
                    ensure_newline_between, src, groups, log, part, match,
                    frame >>

\* lines 143-149: the next file is read; a text no longer than one of the
\* thresholds is its own single chunk, any other is handed to
\* split_text_minmax; a file that does not decode raises out of main.  The
\* test of line 146 and split_text_minmax treat the two thresholds alike, so
\* the swap a call made for an earlier file changes nothing for a later one.
SplitRead ==
    /\ pc = "split_loop"
    /\ prog = "split-text-files"
    /\ files # << >>
    /\ src' = Head(files)
    /\ LET content == in_files[Head(files)]
       IN  IF content = Undecodable
           THEN /\ text' = text
                /\ chunks' = chunks
                /\ pc' = "split_crash"
           ELSE /\ text' = content
                /\ IF Len(content) <= min_chars \/ Len(content) <= max_chars
                   THEN /\ chunks' = << content >>
                        /\ pc' = "done"
                   ELSE /\ chunks' = chunks
                        /\ pc' = "split_call"
    /\ UNCHANGED << min_chars, target_chars, max_chars, overlap_chars,
                    by_section, ragLocals, mmLocals, in_files, split_files,
                    out_files, prog, recursive, allow_partial,
                    ensure_newline_between, files, groups, log, part, match,
                    frame >>

\* lines 150-163: the chunks of src are written
SplitWrite ==
    /\ pc = "done"
    /\ prog = "split-text-files"
    /\ src # << >>
    /\ split_files' = ChunkFiles(src, chunks) @@ split_files
    /\ files' = Tail(files)
    /\ pc' = IF Tail(files) = << >> THEN "split_exit" ELSE "split_loop"
    /\ UNCHANGED << text, min_chars, target_chars, max_chars, overlap_chars,
                    by_section, chunks, ragLocals, mmLocals, in_files,
                    out_files, prog, recursive, allow_partial,
                    ensure_newline_between, src, groups, log, part, match,
                    frame >>

(***************************************************************************)
(* A batch run of one of the two split commands over a directory in which  *)
(* a file may fail to decode.                                              *)
(***************************************************************************)
BatchPaths ==
    { << << "a" >> \o Txt >>,
      << << "b" >> \o Txt >>,
      << << "s", "u", "b" >>, << "c" >> \o Txt >> }

BatchContents ==
    { Undecodable, << "a" >>, << "a", "a" >>, << "a", "\n", "a" >> }

InitBatch ==
    /\ \E S \in SUBSET BatchPaths : in_files \in [S -> BatchContents]
    /\ \/ prog = "legal-chunk-text" /\ pc = "legal_main"
       \/ prog = "split-text-files" /\ pc = "split_main"
    /\ min_chars \in 1..MaxParamCli
    /\ target_chars \in min_chars..MaxParamCli
    /\ max_chars \in target_chars..MaxParamCli
    /\ overlap_chars \in 0..1
    /\ by_section = TRUE
    /\ recursive \in BOOLEAN
    /\ allow_partial = FALSE
    /\ ensure_newline_between = FALSE
    /\ split_files = NoFiles
    /\ out_files = NoFiles
    /\ files = << >>
    /\ src = << >>
    /\ groups = << >>
    /\ log = {}
    /\ part = NoPart
    /\ match = NoMatch
    /\ frame = NoFrame
    /\ text = << >>
    /\ sorted_breaks = {}
    /\ i = 0
    /\ chunks = << >>
    /\ paras = << >>
    /\ current_parts = << >>
    /\ current_len = 0

NextBatch ==
    \/ LegalMain
    \/ LegalRead
    \/ ChunkCall
    \/ ChunkLoop
    \/ LegalWrite
    \/ SplitMain
    \/ SplitRead
    \/ SplitCall
    \/ SplitPara
    \/ SplitFinish
    \/ SplitWrite

SpecBatch == InitBatch /\ [][NextBatch]_vars

\* the run of the split command is over, by return or by an exception
BatchOver ==
    pc \in { "legal_exit", "legal_crash", "split_exit", "split_crash" }

\* the files written for the source file path: <stem>.txt or the parts
WrittenFor(path) ==
    { f \in DOMAIN split_files :
        /\ ParentOf(f) = ParentOf(path)
        /\ \/ NameOf(f) = StemOf(path) \o Txt
           \/ StartsWith(NameOf(f), StemOf(path) \o SplitTag) }

\* C14: a file that does not decode does not end the run of a split
\* command: when the run is over, every file that decodes has been
\* processed and written
C14_DecodeFailureIsolated ==
    BatchOver
        => /\ pc \notin { "legal_crash", "split_crash" }
           /\ \A path \in Glob(in_files, recursive) :
                 in_files[path] # Undecodable => WrittenFor(path) # {}

\* the files of the output directory that a step wrote: new, or changed
WrittenByStep ==
    { path \in DOMAIN split_files' :
        path \notin DOMAIN split_files \/ split_files'[path] # split_files[path] }

\* the step that writes the chunks of src, in either split command
WriteStep ==
    /\ pc = "done"
    /\ prog \in { "legal-chunk-text", "split-text-files" }
    /\ pc' \in { "legal_loop", "legal_exit", "split_loop", "split_exit" }

\* <parent>/<stem>_split_<i>_of_<n>.txt
SuffixedPath(path, idx, n) ==
    ParentOf(path)
        \o << StemOf(path) \o SplitTag \o Str(idx) \o OfTag \o Str(n) \o Txt >>

\* C16: both split commands write a document of exactly one chunk to
\* <stem>.txt, without a _split_ suffix, and a document of n > 1 chunks to
\* exactly the n files <stem>_split_i_of_n.txt, i = 1..n, file i holding
\* the i-th chunk
C16_SingleChunkNaming ==
    [][ WriteStep =>
          LET n == Len(chunks)
              whole == ParentOf(src) \o << StemOf(src) \o Txt >>
          IN  /\ n = 1 => /\ whole \in DOMAIN split_files'
                          /\ split_files'[whole] = chunks[1]
                          /\ WrittenByStep \subseteq { whole }
              /\ n > 1 => /\ \A idx \in 1..n :
                                /\ SuffixedPath(src, idx, n)
                                       \in DOMAIN split_files'
                                /\ split_files'[SuffixedPath(src, idx, n)]
                                       = chunks[idx]
                          /\ WrittenByStep
                                \subseteq { SuffixedPath(src, idx, n) :
                                              idx \in 1..n } ]_vars

\* a run has written one document whole and another one in parts
C16_Witness ==
    /\ pc \in { "legal_exit", "split_exit" }
    /\ prog = "split-text-files"
    /\ \E p1, p2 \in DOMAIN in_files :
          /\ (ParentOf(p1) \o << StemOf(p1) \o Txt >>) \in DOMAIN split_files
          /\ \E n \in 2..MaxLenFile :
                \A idx \in 1..n : SuffixedPath(p2, idx, n) \in DOMAIN split_files

(***************************************************************************)
(* Naming a part and matching the name: the name is built as the split     *)
(* commands build it (cli.py 156-161, legal_cli.py 57-62) and matched as   *)
(* merge-split-files matches it (merge_cli.py 46-51).                      *)
(***************************************************************************)
\* Bound of the naming model: the largest total
MaxTotal == 11

\* stems: plain, holding or ending with a split suffix, holding parts of
\* one, ending with a digit, holding a line break
NameStems ==
    { << "a" >>,
      << "a" >> \o SplitTag \o << "1" >> \o OfTag \o << "2" >>,
      << "a" >> \o SplitTag \o << "1" >> \o OfTag \o << "2" >> \o Txt,
      SplitTag,
      << "a" >> \o OfTag \o << "2" >>,
      << "a", "1" >>,
      << "a", "\n", "b" >> }

\* the name of the part: <stem>.txt for a document written whole (idx = 0
\* stands for "no index"), the split name otherwise
PartName(p) ==
    IF p.idx = 0 THEN p.stem \o Txt ELSE SplitName(p.stem, p.idx, p.total)

\* dst.write_text(chunk): cli.py 156-162, legal_cli.py 57-63
WritePart ==
    /\ pc = "write_part"
    /\ split_files' = WriteFile(split_files, << PartName(part) >>, << "a" >>)
    /\ pc' = "match_name"
    /\ UNCHANGED << text, min_chars, target_chars, max_chars, overlap_chars,
                    by_section, chunks, ragLocals, mmLocals, in_files,
                    out_files, prog, recursive, allow_partial,
                    ensure_newline_between, files, src, groups, log, part,
                    match, frame >>

\* m = SPLIT_RE.match(f.name) and its groups: merge_cli.py 45-51
MatchName ==
    /\ pc = "match_name"
    /\ \E f \in Glob(split_files, recursive) :
          /\ files' = << f >>
          /\ match' = ParseSplit(NameOf(f))
    /\ pc' = "matched"
    /\ UNCHANGED << text, min_chars, target_chars, max_chars, overlap_chars,
                    by_section, chunks, ragLocals, mmLocals, in_files,
                    split_files, out_files, prog, recursive, allow_partial,
                    ensure_newline_between, src, groups, log, part, frame >>

InitNames ==
    /\ \E stem \in NameStems :
       \E total \in 1..MaxTotal :
       \E idx \in 0..total :
           part = [stem |-> stem, idx |-> idx, total |-> total]
    /\ match = NoMatch
    /\ frame = NoFrame
    /\ in_files = NoFiles
    /\ split_files = NoFiles
    /\ out_files = NoFiles
    /\ prog = ""
    /\ recursive = FALSE
    /\ allow_partial = FALSE
    /\ ensure_newline_between = FALSE
    /\ files = << >>
    /\ src = << >>
    /\ groups = << >>
    /\ log = {}
    /\ text = << >>
    /\ min_chars = 0
    /\ target_chars = 0
    /\ max_chars = 0
    /\ overlap_chars = 0
    /\ by_section = TRUE
    /\ sorted_breaks = {}
    /\ i = 0
    /\ chunks = << >>
    /\ paras = << >>
    /\ current_parts = << >>
    /\ current_len = 0
    /\ pc = "write_part"

NextNames == WritePart \/ MatchName

SpecNames == InitNames /\ [][NextNames]_vars

\* the stem does not itself end with a split suffix
PlainStem(stem) ==
    \A a, b \in 0..MaxTotal :
        ~EndsWith(stem, SplitTag \o Str(a) \o OfTag \o Str(b))

\* C15: the name <base>_split_<index>_of_<total>.txt matches the merge
\* pattern as exactly (base, index, total), for every non-empty base and
\* 1 <= index <= total, also when the base holds a split suffix itself; a
\* name without the suffix does not match
C15_NameParseRoundTrip ==
    pc = "matched"
        => IF part.idx >= 1
           THEN match = [matched |-> TRUE, base |-> part.stem,
                         idx |-> part.idx, total |-> part.total]
           ELSE PlainStem(part.stem) => ~match.matched

(***************************************************************************)
(* merge-split-files on a directory of any content.                        *)
(***************************************************************************)
\* Bound of the merge model: the number of files in the directory
MaxFiles == 3

\* the files the directory is made of: the two parts of a, a part of a
\* written with a leading zero, a part of a that declares another total,
\* parts 9 and 10 of b, a part of b that does not decode, a file named like
\* the merged a that is no split file, and a part and a plain file in a
\* subdirectory; some contents end with a newline
MergeDir ==
    LET a == << "a" >>
        b == << "b" >>
        c == << "c" >>
        sub == << "s", "u", "b" >>
    IN  (<< SplitName(a, 1, 2) >> :> << "x" >>)
        @@ (<< SplitName(a, 2, 2) >> :> << "y", "\n" >>)
        @@ (<< a \o SplitTag \o << "0", "1" >> \o OfTag \o << "2" >> \o Txt >>
                :> << "z" >>)
        @@ (<< SplitName(a, 1, 3) >> :> << "x", "\n" >>)
        @@ (<< SplitName(b, 9, 10) >> :> << "p", "\n" >>)
        @@ (<< SplitName(b, 10, 10) >> :> << "q" >>)
        @@ (<< SplitName(b, 1, 10) >> :> Undecodable)
        @@ (<< a \o Txt >> :> << "w" >>)
        @@ (<< sub, SplitName(a, 2, 2) >> :> << "y" >>)
        @@ (<< sub, c \o Txt >> :> << "v", "\n" >>)

InitMerge ==
    /\ \E S \in SUBSET DOMAIN MergeDir :
          /\ Cardinality(S) <= MaxFiles
          /\ split_files = [path \in S |-> MergeDir[path]]
    /\ in_files = NoFiles
    /\ out_files = NoFiles
    /\ prog = "merge-split-files"
    /\ recursive \in BOOLEAN
    /\ allow_partial \in BOOLEAN
    /\ ensure_newline_between \in BOOLEAN
    /\ files = << >>
    /\ src = << >>
    /\ groups = << >>
    /\ log = {}
    /\ part = NoPart
    /\ match = NoMatch
    /\ frame = NoFrame
    /\ text = << >>
    /\ min_chars = 0
    /\ target_chars = 0
    /\ max_chars = 0
    /\ overlap_chars = 0
    /\ by_section = TRUE
    /\ sorted_breaks = {}
    /\ i = 0
    /\ chunks = << >>
    /\ paras = << >>
    /\ current_parts = << >>
    /\ current_len = 0
    /\ pc = "merge_main"

NextMerge == MergeMain \/ MergeGroup \/ MergeCopy

SpecMerge == InitMerge /\ [][NextMerge]_vars

(***************************************************************************)
(* Properties of merge-split-files.  The groups are read off the input     *)
(* directory: a group is the set of split files of one directory that      *)
(* carry one base.                                                         *)
(***************************************************************************)
SplitFilesFound ==
    { f \in Glob(split_files, recursive) : IsSplitName(NameOf(f)) }

GroupKeys == { KeyOf(f) : f \in SplitFilesFound }

MembersOf(key) == { f \in SplitFilesFound : KeyOf(f) = key }

TotalsOf(key) == { ParseSplit(NameOf(f)).total : f \in MembersOf(key) }

IndicesOf(key) == { ParseSplit(NameOf(f)).idx : f \in MembersOf(key) }

TotalsAgree(key) == Cardinality(TotalsOf(key)) = 1

HasMissing(key) ==
    \E total \in TotalsOf(key) : \E n \in 1..total : n \notin IndicesOf(key)

\* the file a merged group is written to
MergedPath(key) == key[1] \o << key[2] \o Txt >>

\* the groups the run is to merge
Mergeable(key) == TotalsAgree(key) /\ (allow_partial \/ ~HasMissing(key))

\* the loop over the groups is over
GroupsDone == pc \in { "merge_copy", "merge_exit" }

\* the only file at a skipped group's path is a plain input file of that
\* name, copied through
OnlyPassedThrough(path) ==
    path \in DOMAIN out_files
        => /\ pc = "merge_exit"
           /\ path \in Glob(split_files, recursive)
           /\ out_files[path] = split_files[path]

\* C11: without allow_partial, a group whose members agree on the total but
\* lack an index of 1..total gets no output file and a report, and every
\* other group the run is to merge has its output
C11_MissingPartsSkipGroup ==
    ~allow_partial
        => \A key \in GroupKeys :
              (TotalsAgree(key) /\ HasMissing(key))
                  => /\ OnlyPassedThrough(MergedPath(key))
                     /\ GroupsDone
                          => /\ << "missing parts", key >> \in log
                             /\ \A other \in GroupKeys \ { key } :
                                   Mergeable(other)
                                      => MergedPath(other) \in DOMAIN out_files

\* a finished run that skipped a group with missing parts and merged another
C11_Witness ==
    /\ pc = "merge_exit"
    /\ ~allow_partial
    /\ \E key \in GroupKeys :
          /\ TotalsAgree(key)
          /\ HasMissing(key)
          /\ MergedPath(key) \notin DOMAIN out_files
          /\ \E other \in GroupKeys \ { key } :
                /\ Mergeable(other)
                /\ MergedPath(other) \in DOMAIN out_files

\* the texts that are the members' contents joined in an order that
\* ascends by index
AscendingJoins(key) ==
    { Concat([k \in DOMAIN order |-> split_files[order[k]]]) :
        order \in { o \in Enumerations(MembersOf(key)) :
                      \A j, k \in DOMAIN o :
                         j < k => ParseSplit(NameOf(o[j])).idx
                                    <= ParseSplit(NameOf(o[k])).idx } }

AllDecode(key) == \A f \in MembersOf(key) : split_files[f] # Undecodable

\* C12: with allow_partial and without ensure_newline_between, what the loop
\* over the groups wrote for a group with missing members is the present
\* members' contents joined in ascending order of the numeric index, in
\* whatever order the files were enumerated
C12_PartialMergeAscending ==
    (pc = "merge_copy" /\ allow_partial /\ ~ensure_newline_between)
        => \A key \in GroupKeys :
              (TotalsAgree(key) /\ HasMissing(key) /\ AllDecode(key))
                  => /\ MergedPath(key) \in DOMAIN out_files
                     /\ out_files[MergedPath(key)] \in AscendingJoins(key)

\* a partial group of two members that were enumerated with the larger
\* index first, merged
C12_Witness ==
    /\ pc = "merge_copy"
    /\ allow_partial
    /\ ~ensure_newline_between
    /\ \E key \in GroupKeys :
          /\ TotalsAgree(key)
          /\ HasMissing(key)
          /\ AllDecode(key)
          /\ out_files[MergedPath(key)] \in AscendingJoins(key)
          /\ \E j, k \in DOMAIN files :
                /\ j < k
                /\ { files[j], files[k] } \subseteq MembersOf(key)
                /\ ParseSplit(NameOf(files[j])).idx
                     > ParseSplit(NameOf(files[k])).idx

\* C13: a group whose members declare different totals gets no output
\* file and a warning, and every other group the run is to merge has its
\* output
C13_InconsistentTotalsSkipGroup ==
    \A key \in GroupKeys :
        ~TotalsAgree(key)
            => /\ OnlyPassedThrough(MergedPath(key))
               /\ GroupsDone
                    => /\ << "inconsistent totals", key >> \in log
                       /\ \A other \in GroupKeys \ { key } :
                             Mergeable(other)
                                => MergedPath(other) \in DOMAIN out_files

\* a finished run that skipped a group with two totals and merged another
C13_Witness ==
    /\ pc = "merge_exit"
    /\ \E key \in GroupKeys :
          /\ Cardinality(TotalsOf(key)) = 2
          /\ MergedPath(key) \notin DOMAIN out_files
          /\ << "inconsistent totals", key >> \in log
          /\ \E other \in GroupKeys \ { key } :
                /\ Mergeable(other)
                /\ MergedPath(other) \in DOMAIN out_files

\* C17: after a merge run, every input file whose name does not match the
\* split pattern is in the output directory at the same relative path with
\* the same bytes, whether or not a split group was found
C17_PassThrough ==
    pc = "merge_exit"
        => \A path \in Glob(split_files, recursive) :
              ~ParseSplit(NameOf(path)).matched
                  => /\ path \in DOMAIN out_files
                     /\ out_files[path] = split_files[path]

\* a run that found a group has ended, and a plain file of a subdirectory
\* was among its input
C17_Witness ==
    /\ pc = "merge_exit"
    /\ \E key \in GroupKeys : MergedPath(key) \in DOMAIN out_files
    /\ \E path \in Glob(split_files, recursive) :
          /\ Len(path) > 1
          /\ ~ParseSplit(NameOf(path)).matched
          /\ path \in DOMAIN out_files

\* the start offsets of heading and step lines that no generic rule
\* (text ends, paragraph ends, punctuation) yields
SectionOnlyBreaks(t) ==
    LineStartBreaks(t)
        \ ({ 0, Len(t) } \cup ParagraphEnds(t) \cup PunctuationBreaks(t))

\* C18: by_section selects the boundary source: with by_section false (the
\* command line's --no-section) the start offsets of heading and step lines
\* are not used as breakpoints, only the generic boundaries are
C18_SectionToggle ==
    (pc \in { "loop", "done" } /\ ~by_section)
        => sorted_breaks \cap SectionOnlyBreaks(text) = {}

\* C19: at each cursor i, chunk_text_for_rag cuts at the largest breakpoint
\* b with i + min_chars <= b <= i + target_chars if there is one; otherwise
\* at the smallest breakpoint b with i + target_chars < b <= i + max_chars
\* if there is one; otherwise at min(i + max_chars, len(text)); and when the
\* chosen b <= i it cuts at min(i + max_chars, len(text)) instead
C19_TwoTierBoundary ==
    [][ (pc = "loop" /\ Len(chunks') = Len(chunks) + 1) =>
          LET n      == Len(text)
              tier1  == { b \in sorted_breaks :
                            i + min_chars <= b /\ b <= i + target_chars }
              tier2  == { b \in sorted_breaks :
                            i + target_chars < b /\ b <= i + max_chars }
              forced == IF i + max_chars < n THEN i + max_chars ELSE n
              chosen == IF tier1 # {}
                        THEN CHOOSE b \in tier1 : \A c \in tier1 : c <= b
                        ELSE IF tier2 # {}
                        THEN CHOOSE b \in tier2 : \A c \in tier2 : b <= c
                        ELSE forced
              cut    == IF chosen <= i THEN forced ELSE chosen
          IN  chunks'[Len(chunks')] = Slice(text, i, cut) ]_vars

\* the first cut was taken from the second tier, which held two breakpoints,
\* and a later cut was made as well
C19_Witness ==
    /\ pc \in { "loop", "done" }
    /\ Len(chunks) >= 2
    /\ { b \in sorted_breaks : min_chars <= b /\ b <= target_chars } = {}
    /\ Cardinality({ b \in sorted_breaks :
                       target_chars < b /\ b <= max_chars }) >= 2
    /\ \A b \in sorted_breaks :
          (target_chars < b /\ b <= max_chars) => Len(chunks[1]) <= b
    /\ Len(chunks[1]) \in sorted_breaks
    /\ Len(chunks[1]) > target_chars

\* C20: for positive thresholds the chunks of split_text_minmax carry the
\* content of the text in its order: the chunks joined in order, every
\* newline deleted, are the text with every newline deleted (so a short
\* paragraph before an oversized one is never emitted after it)
C20_MinMaxKeepsOrder ==
    (pc = "done" /\ PositiveThresholds)
        => SelectSeq(Concat(chunks), LAMBDA c : c # "\n")
              = SelectSeq(text, LAMBDA c : c # "\n")

\* C21: whenever split_text_minmax meets a single line longer than
\* max_chars, the line is cut at max_chars boundaries, so no returned chunk
\* holds the oversized line whole (thresholds positive, min_chars <=
\* max_chars)
C21_OversizedLineHardCut ==
    (pc = "done" /\ PositiveThresholds /\ min_chars <= max_chars)
        => \A line \in SeqRange(SplitOn(text, << "\n" >>)) :
              Len(line) > max_chars
                  => \A k \in DOMAIN chunks :
                        \A a \in 0..Len(chunks[k]) :
                            Slice(chunks[k], a, a + Len(line)) # line

\* C22: whenever merge writes the file of a group without allow_partial
\* and without ensure_newline_between, the file is the contents of exactly
\* the members with the indices 1..total, each once, joined in ascending
\* order: no member with another index, no two members of one index, none
\* left out (members that decode)
C22_CompleteMergeContent ==
    (pc = "merge_copy" /\ ~allow_partial /\ ~ensure_newline_between)
        => \A key \in GroupKeys :
              (MergedPath(key) \in DOMAIN out_files /\ AllDecode(key))
                  => \E total \in TotalsOf(key) :
                        /\ Cardinality(MembersOf(key)) = total
                        /\ \E o \in [1..total -> MembersOf(key)] :
                              /\ \A k \in 1..total :
                                    ParseSplit(NameOf(o[k])).idx = k
                              /\ out_files[MergedPath(key)]
                                    = Concat([k \in 1..total
                                                |-> split_files[o[k]]])

\* C23: within one merge run each output path is written at most once: the
\* pass-through copy never replaces a file the run has written before, such
\* as the merged <base>.txt of a group
C23_NoOutputCollision ==
    [][ (prog = "merge-split-files" /\ pc = "merge_copy")
          => \A path \in DOMAIN out_files :
                out_files'[path] = out_files[path] ]_vars

\* C24: with ensure_newline_between, merge puts exactly one newline between
\* two consecutive pieces if and only if the earlier piece does not end with
\* a newline, and nothing before the first piece or after the last; without
\* the option the pieces are joined with nothing between them
C24_JoinNormalization ==
    pc = "merge_copy"
        => \A key \in GroupKeys :
              MergedPath(key) \in DOMAIN out_files
                  => \E o \in Enumerations({ f \in MembersOf(key) :
                                               split_files[f] # Undecodable }) :
                        /\ \A j, k \in DOMAIN o :
                              j < k => ParseSplit(NameOf(o[j])).idx
                                          <= ParseSplit(NameOf(o[k])).idx
                        /\ out_files[MergedPath(key)]
                             = Concat([k \in DOMAIN o |->
                                 (IF /\ ensure_newline_between
                                     /\ k > 1
                                     /\ ~EndsWith(split_files[o[k - 1]],
                                                  << "\n" >>)
                                  THEN << "\n" >>
                                  ELSE << >>) \o split_files[o[k]]])

\* with the option, a file was merged from a piece without a final newline
\* followed by another piece, and so holds a newline no piece brought
C24_Witness ==
    /\ pc = "merge_copy"
    /\ ensure_newline_between
    /\ \E key \in GroupKeys :
          /\ MergedPath(key) \in DOMAIN out_files
          /\ AllDecode(key)
          /\ \E f, g \in MembersOf(key) :
                /\ ParseSplit(NameOf(f)).idx < ParseSplit(NameOf(g)).idx
                /\ ~EndsWith(split_files[f], << "\n" >>)
          /\ Len(out_files[MergedPath(key)]) = 4

\* C25: for every non-empty text the breakpoint set built by
\* chunk_text_for_rag holds 0 and len(text), lies within [0, len(text)], and
\* holds the end offset of every run of two or more newlines and the start
\* offset of every heading or step line (stated where the set has just been
\* built; the loop never changes it)
C25_BreakpointSetShape ==
    (pc = "loop" /\ chunks = << >>)
        => LET n == Len(text)
           IN  /\ 0 \in sorted_breaks
               /\ n \in sorted_breaks
               /\ \A b \in sorted_breaks : 0 <= b /\ b <= n
               /\ \A e \in 2..n :
                     (/\ text[e] = "\n"
                      /\ text[e - 1] = "\n"
                      /\ (e = n \/ text[e + 1] # "\n"))
                         => e \in sorted_breaks
               /\ \A st \in 0..(n - 1) :
                     (st = 0 \/ text[st] = "\n")
                         => LET stops == { k \in (st + 1)..n : text[k] = "\n" }
                                line  == Slice(text, st,
                                               IF stops = {} THEN n
                                               ELSE SetMin(stops) - 1)
                            IN  (is_heading_line(line) \/ is_legal_step_line(line))
                                    => st \in sorted_breaks

\* the set of a text in which a one-character heading line starts after a
\* line that ends neither a paragraph nor a sentence, so that only the line
\* rule yields its start
C25_Witness ==
    /\ pc = "loop"
    /\ chunks = << >>
    /\ \E st \in 2..(Len(text) - 1) :
          /\ text[st] = "\n"
          /\ text[st - 1] \notin { "\n", ".", ";", ":" }
          /\ (st + 1 = Len(text) \/ text[st + 2] = "\n")
          /\ is_heading_line(Slice(text, st, st + 1))
          /\ st \in sorted_breaks

MaxLenWin == 3

MaxParamWin == 2

MaxOverlapWin == 3

MaxWindows == 4

\* Python t[a:b] for any integers a, b: a negative offset counts from the end
PySlice(t, a, b) ==
    LET lo == IF a < 0 THEN Max2(0, Len(t) + a) ELSE Min2(a, Len(t))
        hi == IF b < 0 THEN Max2(0, Len(t) + b) ELSE Min2(b, Len(t))
    IN  IF lo >= hi THEN << >> ELSE SubSeq(t, lo + 1, hi)

\* lines 65-68
OverlapCall ==
    /\ pc = "ovl_call"
    /\ frame' = [fn     |-> "chunk_overlap",
                 chunks |-> << >>,
                 start  |-> 0,
                 L      |-> Len(text),
                 step   |-> Max2(1, max_chars - overlap_chars)]
    /\ pc' = "ovl_loop"
    /\ UNCHANGED << text, min_chars, target_chars, max_chars, overlap_chars,
                    by_section, chunks, ragLocals, mmLocals, cliVars >>

\* lines 69-75: one test of the while condition and, when it holds, one
\* window
OverlapLoop ==
    /\ pc = "ovl_loop"
    /\ frame.start < frame.L => Len(frame.chunks) < MaxWindows
    /\ IF frame.start < frame.L
       THEN LET end == Min2(frame.L, frame.start + max_chars)
                win == << frame.start, end, PySlice(text, frame.start, end) >>
            IN  IF end = frame.L
                THEN /\ frame' = [frame EXCEPT !.chunks = Append(@, win)]
                     /\ pc' = "ovl_done"
                ELSE /\ frame' = [frame EXCEPT !.chunks = Append(@, win),
                                               !.start = end - overlap_chars]
                     /\ pc' = "ovl_loop"
       ELSE /\ frame' = frame
            /\ pc' = "ovl_done"
    /\ UNCHANGED << text, min_chars, target_chars, max_chars, overlap_chars,
                    by_section, chunks, ragLocals, mmLocals, cliVars >>

InitOverlap ==
    /\ text \in TextsUpTo({ "a", "b" }, MaxLenWin)
    /\ max_chars \in 1..MaxParamWin
    /\ overlap_chars \in 0..MaxOverlapWin
    /\ min_chars = 0
    /\ target_chars = 0
    /\ by_section = TRUE
    /\ sorted_breaks = {}
    /\ i = 0
    /\ chunks = << >>
    /\ paras = << >>
    /\ current_parts = << >>
    /\ current_len = 0
    /\ NoCli
    /\ frame = NoFrame
    /\ pc = "ovl_call"

NextOverlap == OverlapCall \/ OverlapLoop

SpecOverlap == InitOverlap /\ [][NextOverlap]_vars

\* C30: for max_chars >= 1 and overlap >= 0, also overlap >= max_chars, the
\* window start of chunk_overlap strictly increases from one window to the
\* next and is never negative, and the last window ends at len(text) (so
\* that the loop terminates)
C30_WindowAdvances ==
    [][ pc = "ovl_loop"
          => /\ frame'.start >= 0
             /\ pc' = "ovl_loop" => frame'.start > frame.start
             /\ (pc' = "ovl_done" /\ frame'.chunks # << >>)
                   => frame'.chunks[Len(frame'.chunks)][2] = Len(text) ]_vars

(***************************************************************************)
(* assemble_chunks: legal_chunker.py, lines 161-245.  The locals are the   *)
(* fields of frame.                                                        *)
(***************************************************************************)
\* Bounds of the assemble model
MaxUnits == 2

MaxParamAsm == 2

MaxPieces == 6

\* the units a call is given: empty, short, with a space inside, with a space
\* at an end, longer than every max_chars of the model
Units ==
    { << >>,
      << "a" >>,
      << "a", "a" >>,
      << "a", " ", "a" >>,
      << " ", "a" >>,
      << "a", "a", " ", "a", "a" >>,
      << "a", " ", "a", "a", "a", "a" >> }

\* sep.join(ss)
RECURSIVE JoinWith(_, _)
JoinWith(ss, sep) ==
    IF Len(ss) = 0 THEN << >>
    ELSE IF Len(ss) = 1 THEN ss[1]
    ELSE ss[1] \o sep \o JoinWith(Tail(ss), sep)

\* str.rfind(sub): the offset of the last occurrence, -1 when there is none
RFind(t, sub) ==
    LET hits == { k \in 0..(Len(t) - Len(sub)) :
                    SubSeq(t, k + 1, k + Len(sub)) = sub }
    IN  IF hits = {} THEN -1 ELSE SetMax(hits)

\* lines 172-180: flush(), on the record of buffer, buffer_len and chunks
Flush(st) ==
    IF st.buffer = << >>
    THEN st
    ELSE LET chunk == Strip(JoinWith(st.buffer, << "\n", "\n" >>))
         IN  [buffer     |-> << >>,
              buffer_len |-> 0,
              chunks     |-> IF chunk # << >> THEN Append(st.chunks, chunk)
                             ELSE st.chunks]

\* lines 182-205: the loop over the units and the flush of what is left
RECURSIVE UnitLoop(_, _)
UnitLoop(units, st) ==
    IF Len(units) = 0
    THEN (IF st.buffer_len # 0 THEN Flush(st) ELSE st).chunks
    ELSE LET unit          == Head(units)
             sep           == IF st.buffer # << >> THEN << "\n", "\n" >>
                              ELSE << >>
             candidate_len == st.buffer_len + Len(sep) + Len(unit)
             added         == [st EXCEPT !.buffer = Append(@, sep \o unit),
                                         !.buffer_len = candidate_len]
             nxt ==
                IF candidate_len <= target_chars
                THEN added
                ELSE IF st.buffer_len < min_chars
                THEN IF \/ added.buffer_len >= min_chars
                        \/ added.buffer_len >= max_chars
                     THEN Flush(added)
                     ELSE added
                ELSE [Flush(st) EXCEPT !.buffer = << unit >>,
                                       !.buffer_len = Len(unit)]
         IN  UnitLoop(Tail(units), nxt)

\* lines 208-222: the tail of the previous chunk, cut back to a sentence
\* boundary and stripped, is put before every chunk but the first
RECURSIVE AddOverlap(_, _)
AddOverlap(cs, overlapped) ==
    IF Len(cs) = 0
    THEN overlapped
    ELSE IF Len(overlapped) = 0
    THEN AddOverlap(Tail(cs), << Head(cs) >>)
    ELSE LET prev     == overlapped[Len(overlapped)]
             tail0    == PySlice(prev, -overlap_chars, Len(prev))
             boundary == Max2(RFind(tail0, << "\n", "\n" >>),
                              Max2(RFind(tail0, << ".", " " >>),
                                   RFind(tail0, << ";", " " >>)))
             tail     == IF boundary # -1
                         THEN PySlice(tail0, boundary + 1, Len(tail0))
                         ELSE tail0
             merged   == Strip(tail)
                           \o (IF Strip(tail) # << >> THEN << "\n", "\n" >>
                               ELSE << >>)
                           \o Head(cs)
         IN  AddOverlap(Tail(cs), Append(overlapped, merged))

\* variant: the window is one character wider than max_chars
CutEndOneTooWide(t, from) ==
    LET L    == Len(t)
        end0 == Min2(from + max_chars + 1, L)
        ws   == RFind(PySlice(t, from, end0), << " " >>)
    IN  IF end0 < L /\ ws >= min_chars \div 2 THEN from + ws ELSE end0

\* lines 234-241: the end of the piece cut from t at offset from
CutEnd(t, from) ==
    LET L    == Len(t)
        end0 == Min2(from + max_chars, L)
        ws   == RFind(PySlice(t, from, end0), << " " >>)
    IN  IF end0 < L /\ ws >= min_chars \div 2 THEN from + ws ELSE end0

\* lines 168-205
AssembleCall ==
    /\ pc = "asm_call"
    /\ frame' = [fn         |-> "assemble_chunks",
                 units      |-> frame.units,
                 chunks     |-> UnitLoop(frame.units,
                                         [buffer     |-> << >>,
                                          buffer_len |-> 0,
                                          chunks     |-> << >>]),
                 normalized |-> << >>,
                 s          |-> << >>,
                 start      |-> 0,
                 L          |-> 0]
    /\ pc' = "asm_overlap"
    /\ UNCHANGED << text, min_chars, target_chars, max_chars, overlap_chars,
                    by_section, chunks, ragLocals, mmLocals, cliVars >>

\* lines 207-222
AssembleOverlap ==
    /\ pc = "asm_overlap"
    /\ frame' = IF overlap_chars > 0 /\ Len(frame.chunks) > 1
                THEN [frame EXCEPT !.chunks = AddOverlap(@, << >>)]
                ELSE frame
    /\ pc' = "asm_for"
    /\ UNCHANGED << text, min_chars, target_chars, max_chars, overlap_chars,
                    by_section, chunks, ragLocals, mmLocals, cliVars >>

\* lines 226-232 and 245: the next chunk of the final pass, or the return
AssembleNext ==
    /\ pc = "asm_for"
    /\ IF frame.chunks = << >>
       THEN /\ frame' = frame
            /\ pc' = "asm_done"
       ELSE LET c == Head(frame.chunks)
            IN  IF Len(c) <= max_chars
                THEN /\ frame' = [frame EXCEPT !.chunks = Tail(@),
                                               !.normalized = Append(@, c)]
                     /\ pc' = "asm_for"
                ELSE /\ frame' = [frame EXCEPT !.chunks = Tail(@),
                                               !.s = c,
                                               !.start = 0,
                                               !.L = Len(c)]
                     /\ pc' = "asm_while"
    /\ UNCHANGED << text, min_chars, target_chars, max_chars, overlap_chars,
                    by_section, chunks, ragLocals, mmLocals, cliVars >>

\* lines 233-244: one test of the while condition and, when it holds, one
\* piece
AssembleCut ==
    /\ pc = "asm_while"
    /\ frame.start < frame.L => Len(frame.normalized) < MaxPieces
    /\ IF frame.start < frame.L
       THEN LET end == CutEnd(frame.s, frame.start)
            IN  /\ frame' = [frame EXCEPT
                               !.normalized =
                                   Append(@, PySlice(frame.s, frame.start, end)),
                               !.start = end]
                /\ pc' = "asm_while"
       ELSE /\ frame' = frame
            /\ pc' = "asm_for"
    /\ UNCHANGED << text, min_chars, target_chars, max_chars, overlap_chars,
                    by_section, chunks, ragLocals, mmLocals, cliVars >>

InitAssemble ==
    /\ \E units \in UNION { [1..k -> Units] : k \in 0..MaxUnits } :
          frame = [fn |-> "assemble_chunks", units |-> units]
    /\ min_chars \in 0..MaxParamAsm
    /\ target_chars \in 0..MaxParamAsm
    /\ max_chars \in 1..MaxParamAsm
    /\ overlap_chars \in 0..MaxParamAsm
    /\ text = << >>
    /\ by_section = TRUE
    /\ sorted_breaks = {}
    /\ i = 0
    /\ chunks = << >>
    /\ paras = << >>
    /\ current_parts = << >>
    /\ current_len = 0
    /\ NoCli
    /\ pc = "asm_call"

NextAssemble ==
    AssembleCall \/ AssembleOverlap \/ AssembleNext \/ AssembleCut

SpecAssemble == InitAssemble /\ [][NextAssemble]_vars

\* C28: for max_chars >= 1 every chunk assemble_chunks returns has at most
\* max_chars characters, also one that had grown past max_chars by an
\* oversized unit or by the overlap put before it
C28_PostHocCutBound ==
    (pc = "asm_done" /\ max_chars >= 1)
        => \A k \in DOMAIN frame.normalized :
              Len(frame.normalized[k]) <= max_chars

\* a call has returned pieces cut from a chunk that the overlap prefix had
\* made longer than max_chars
C28_Witness ==
    /\ pc = "asm_done"
    /\ overlap_chars >= 1
    /\ Len(frame.units) = 2
    /\ \A k \in 1..2 : /\ Len(frame.units[k]) <= max_chars
                       /\ frame.units[k] = Strip(frame.units[k])
                       /\ frame.units[k] # << >>
    /\ Len(frame.normalized) >= 3

\* C29: for min_chars >= 0 and max_chars >= 1 the hard-cut loop of
\* assemble_chunks emits a non-empty piece and strictly advances the start
\* offset in each iteration, also when the cut is backed up to the last
\* space of the window (so that the loop terminates)
C29_HardCutAdvances ==
    [][ (pc = "asm_while" /\ frame.start < frame.L)
          => /\ frame'.start > frame.start
             /\ frame'.normalized[Len(frame'.normalized)] # << >> ]_vars

=========================================================================
